---- MODULE Spec2Model ----
(***************************************************************************)
(* A model of usd-qtpy's state-keeping code: the lazy prim hierarchy cache *)
(* (prim_hierarchy_cache.py), the item model on top of it                  *)
(* (prim_hierarchy_model.py), the debounce scheduler and the               *)
(* error-reporting decorator (lib/qt.py), renaming a prim through setData  *)
(* (lib/usd.py) and the merging spec copy (lib/usd_merge_spec.py).  Each   *)
(* part has its own variables and its own specification; the variables of  *)
(* the other parts keep their idle values.                                 *)
(*                                                                         *)
(* The USD stage is the environment.  A prim is known to the program by a  *)
(* Usd.Prim handle; a handle stays valid as long as the prim data it was   *)
(* taken from is alive, and a prim that is removed and defined again at    *)
(* the same path is new prim data (the old handles stay expired).  A       *)
(* handle is modelled as [path, alive]: removing a prim from the stage     *)
(* expires every handle the program holds of it.                           *)
(***************************************************************************)
EXTENDS Integers, Sequences, FiniteSets, TLC

VARIABLES
    stage,          \* the Usd.Stage: [children, pass], see StageInit
    path_to_proxy,  \* HierarchyCache._path_to_proxy
    resynced,       \* the paths of the resync_subtrees call just made
    raised,         \* the call in which the last handling of a notice raised
    persistent,     \* the model's persistent indices (persistentIndexList)
    signals,        \* the signals the last on_objects_changed call emitted
    namespace,      \* the paths at which the stage may hold prims
    jobs,           \* SharedObjects.jobs: the channel's last timer
    orphans,        \* the running timers that no channel refers to any more
    listeners,      \* the LayerStackModels registered for layer notices
    observed,       \* per model: the refreshes seen since its last notice
    lastCall,       \* the schedule call just made: its channel, jobs before
    lastFired,      \* the timer that has just timed out
    notices,        \* the number of notices sent so far
    layers,         \* per layer of the stage's layer stack: its prim specs
    setDataCall,    \* the setData call just made, with its result
    log,            \* the errors logged (logging.error), oldest first
    reported,       \* the call of a report_error wrapper just made
    src_layer,      \* the layer copied from: its prim specs by path
    dest_layer,     \* the layer copied to: its prim specs by path
    merged,         \* the copy_spec_merge call just made: dest_layer before
    targets,        \* per property spec of the layer: the paths it lists
    repathed,       \* the repath_properties call just made, with its result
    tree,           \* the dictionaries of an ItemTree
    treeCall,       \* the last call on the tree and its outcome
    playblast,      \* the call of render_playblast and its frame recorder
    tempfolder,     \* the temp folder on disk and the files in it
    wrapped,        \* the call of a function wrapped by using_tempfolder
    outliner        \* the outliner's HierarchyModel (prim_hierarchy.py)

cacheVars ==
    <<stage, path_to_proxy, resynced, raised, persistent, signals, namespace>>

timerVars ==
    <<jobs, orphans, listeners, observed, lastCall, lastFired, notices>>

renameVars == <<layers, setDataCall>>

reportVars == <<log, reported>>

mergeVars == <<src_layer, dest_layer, merged>>

repathVars == <<targets, repathed>>

treeVars == <<tree, treeCall>>

playblastVars == <<playblast>>

tempfolderVars == <<tempfolder, wrapped>>

outlinerVars == <<outliner>>

vars == <<cacheVars, timerVars, renameVars, reportVars, mergeVars, repathVars,
     treeVars, playblastVars, tempfolderVars, outlinerVars>>

notCacheVars == <<timerVars, renameVars, reportVars, mergeVars, repathVars, treeVars,
     playblastVars, tempfolderVars, outlinerVars>>

notTimerVars == <<cacheVars, renameVars, reportVars, mergeVars, repathVars, treeVars,
     playblastVars, tempfolderVars, outlinerVars>>

notRenameVars == <<cacheVars, timerVars, reportVars, mergeVars, repathVars, treeVars,
     playblastVars, tempfolderVars, outlinerVars>>

notReportVars == <<cacheVars, timerVars, renameVars, mergeVars, repathVars, treeVars,
     playblastVars, tempfolderVars, outlinerVars>>

notMergeVars == <<cacheVars, timerVars, renameVars, reportVars, repathVars, treeVars,
     playblastVars, tempfolderVars, outlinerVars>>

notRepathVars ==
    <<cacheVars, timerVars, renameVars, reportVars, mergeVars, treeVars,
     playblastVars, tempfolderVars, outlinerVars>>

notTreeVars ==
    <<cacheVars, timerVars, renameVars, reportVars, mergeVars, repathVars,
     playblastVars, tempfolderVars, outlinerVars>>

notPlayblastVars ==
    <<cacheVars, timerVars, renameVars, reportVars, mergeVars, repathVars, treeVars,
     tempfolderVars, outlinerVars>>

notTempfolderVars ==
    <<cacheVars, timerVars, renameVars, reportVars, mergeVars, repathVars, treeVars, playblastVars,
     outlinerVars>>

notOutlinerVars ==
    <<cacheVars, timerVars, renameVars, reportVars, mergeVars, repathVars, treeVars, playblastVars, tempfolderVars>>

(***************************************************************************)
(* Paths (Sdf.Path) are sequences of names; the root path "/" is <<>>.     *)
(***************************************************************************)
RootPath == <<>>

Paths ==
    { <<>>, <<"A">>, <<"A", "C">>, <<"A", "D">>,
      <<"A", "C", "E">>, <<"A", "C", "F">> }

\* The namespaces of the stage: the cache alone is checked on CachePaths,
\* the model with its persistent indices on a wide and on a deep one.
CachePaths == Paths \ { <<"A", "D">> }

WidePaths == { <<>>, <<"A">>, <<"A", "C">>, <<"A", "D">> }

DeepPaths == { <<>>, <<"A">>, <<"A", "C">>, <<"A", "C", "E">> }

\* Sdf.Path(): the empty path, the path of a null prim.
EmptyPath == << "" >>

\* Sdf.Path.GetParentPath: the root's parent is the empty path.
GetParentPath(path) ==
    IF path \in {RootPath, EmptyPath} THEN EmptyPath
    ELSE SubSeq(path, 1, Len(path) - 1)

\* A property of a prim, as in "/A.attr".
PropertyName == ".attr"

IsPrimPath(path) ==
    path \notin {RootPath, EmptyPath} /\ path[Len(path)] # PropertyName

IsAbsoluteRootPath(path) == path = RootPath

HasPrefix(path, prefix) ==
    /\ Len(prefix) <= Len(path)
    /\ SubSeq(path, 1, Len(prefix)) = prefix

Range(seq) == { seq[i] : i \in 1..Len(seq) }

IndexOf(seq, x) == CHOOSE i \in 1..Len(seq) : seq[i] = x

\* Every order in which a set may be iterated.
Orderings(S) ==
    { s \in [1..Cardinality(S) -> S] : Range(s) = S }

(***************************************************************************)
(* The stage: children[path] are the ordered child paths of the prim at    *)
(* path (<<>> when there is no prim), pass[path] tells whether the prim    *)
(* passes the cache's predicate.                                           *)
(***************************************************************************)
StageInit ==
    [ children |-> [p \in Paths |-> <<>>],
      pass     |-> [p \in Paths |-> TRUE] ]

RECURSIVE OnStage(_, _)
OnStage(st, path) ==
    IF path = RootPath THEN TRUE
    ELSE IF path = EmptyPath THEN FALSE
    ELSE /\ path \in Range(st.children[GetParentPath(path)])
         /\ OnStage(st, GetParentPath(path))

\* Usd.Prim.IsValid(): the handle's prim data is still alive.
IsValid(prim) == prim.alive

\* The null prim, Usd.Prim().
NullPrim == [path |-> EmptyPath, alive |-> FALSE]

\* stage.GetPrimAtPath / prim.GetChild: the handle of the prim now at path,
\* the null prim when there is none.
GetPrimAtPath(st, path) ==
    IF path \in Paths /\ OnStage(st, path)
    THEN [path |-> path, alive |-> TRUE]
    ELSE NullPrim

\* prim.GetFilteredChildren(predicate), as paths, of a valid prim.
FilteredChildren(st, path) ==
    SelectSeq(st.children[path], LAMBDA c : st.pass[c])

(***************************************************************************)
(* HierarchyCache.  A Proxy is [prim, children]; the cache maps the paths  *)
(* registered so far to their proxies.                                     *)
(***************************************************************************)
Proxy(prim, children) == [prim |-> prim, children |-> children]

\* Proxy.refresh_children, called on a proxy whose prim is valid.
RefreshChildren(st, c, path) ==
    [c EXCEPT ![path].children = FilteredChildren(st, path)]

\* HierarchyCache._register_prim of a valid prim.
RegisterPrim(st, c, prim) ==
    IF prim.path \in DOMAIN c THEN c
    ELSE [q \in DOMAIN c \cup {prim.path} |->
            IF q = prim.path
            THEN Proxy(prim, FilteredChildren(st, prim.path))
            ELSE c[q]]

\* HierarchyCache._delete_subtree: pops the one key.
DeleteSubtree(c, path) ==
    [q \in DOMAIN c \ {path} |-> c[q]]

\* HierarchyCache._invalidate_subtree; InvalidateEach is its loop over the
\* children (and resync_subtrees' loop over the old and new children).
RECURSIVE InvalidateSubtree(_, _, _)
RECURSIVE InvalidateEach(_, _, _)
InvalidateSubtree(st, c, path) ==
    IF path \notin DOMAIN c THEN c
    ELSE IF IsValid(c[path].prim) /\ st.pass[path]
         THEN RefreshChildren(st, InvalidateEach(st, c, c[path].children), path)
         ELSE DeleteSubtree(c, path)

InvalidateEach(st, c, children) ==
    IF children = <<>> THEN c
    ELSE InvalidateEach(st, InvalidateSubtree(st, c, Head(children)),
                        Tail(children))

\* resync_subtrees' set of parents.
UniqueParents(paths) ==
    IF RootPath \in paths THEN {RootPath}
    ELSE { GetParentPath(p) : p \in paths }

\* The loop of resync_subtrees over the parents in the order `parents`.
\* refresh_children raises on a proxy whose prim has expired.  The children
\* of one parent are roots of disjoint subtrees, so the order in which
\* their union is walked does not change the result: the old children are
\* walked first, then the new ones.
NotRaised == "none"

RECURSIVE ResyncParents(_, _, _)
ResyncParents(st, c, parents) ==
    IF parents = <<>> THEN [cache |-> c, raised |-> NotRaised]
    ELSE LET parent == Head(parents) IN
         IF parent \notin DOMAIN c
         THEN ResyncParents(st, c, Tail(parents))
         ELSE IF ~IsValid(c[parent].prim)
         THEN [cache |-> c, raised |-> "refresh_children"]
         ELSE LET original == c[parent].children
                  c1 == RefreshChildren(st, c, parent)
                  new == SelectSeq(c1[parent].children,
                                   LAMBDA x : x \notin Range(original))
              IN ResyncParents(st, InvalidateEach(st, c1, original \o new),
                               Tail(parents))

(***************************************************************************)
(* Edits of the stage, each with the resynced paths of the ObjectsChanged  *)
(* notice the stage sends for it.                                          *)
(***************************************************************************)
Descendants(path) == { q \in Paths : HasPrefix(q, path) }

Without(seq, x) == SelectSeq(seq, LAMBDA y : y # x)

\* stage.DefinePrim(path): a new prim, last among its parent's children.
DefinePrim(st, path) ==
    [ children |-> [st.children EXCEPT
                      ![GetParentPath(path)] = Append(@, path)],
      pass     |-> st.pass ]

\* stage.RemovePrim(path): the prim and all its descendants go.
RemovePrim(st, path) ==
    [ children |-> [p \in Paths |->
                      IF p = GetParentPath(path)
                      THEN Without(st.children[p], path)
                      ELSE IF p \in Descendants(path) THEN <<>>
                      ELSE st.children[p]],
      pass     |-> [p \in Paths |->
                      IF p \in Descendants(path) THEN TRUE ELSE st.pass[p]] ]

\* A change of what the predicate reads on the prim (its specifier, kind,
\* instanceable, ...): the prim data and its children stay.
SetPass(st, path) ==
    [st EXCEPT !.pass[path] = ~@]

\* A reorder of the prim's children (its primOrder).
ReorderChildren(st, path, order) ==
    [st EXCEPT !.children[path] = order]

\* rename_prim of a prim without children: the prim at the new path is new
\* prim data at the old one's place among its siblings.
RenamePrim(st, path, new_path) ==
    [ children |-> [st.children EXCEPT ![GetParentPath(path)] =
                      SubSeq(@, 1, IndexOf(@, path) - 1) \o <<new_path>>
                        \o SubSeq(@, IndexOf(@, path) + 1, Len(@))],
      pass     |-> [st.pass EXCEPT ![new_path] = st.pass[path],
                                   ![path] = TRUE] ]

StagePrims(st) == { p \in Paths : OnStage(st, p) }

(***************************************************************************)
(* HierarchyCache under a changing stage.                                  *)
(***************************************************************************)
\* HierarchyCache.__init__: the root is registered.
CacheInit(st) ==
    [p \in {RootPath} |->
        Proxy(GetPrimAtPath(st, RootPath), FilteredChildren(st, RootPath))]

\* The handles the program holds of the prims at the paths `dead` expire.
ExpirePrim(prim, dead) ==
    IF prim.path \in dead THEN [prim EXCEPT !.alive = FALSE] ELSE prim

Expire(c, dead) ==
    [q \in DOMAIN c |-> [c[q] EXCEPT !.prim = ExpirePrim(@, dead)]]

\* HierarchyCache.get_child(proxy, index) with a proxy of the cache: the
\* child is registered on first use.  Registering a null prim (a listed
\* child that is not on the stage) leaves its proxy under the empty path
\* and raises in refresh_children.  `child` is the prim of the proxy that
\* is returned (the null prim for HierarchyCache._invalid_prim).
GetChild(st, c, path, index) ==
    IF ~IsValid(c[path].prim) \/ index >= Len(c[path].children)
    THEN [cache |-> c, raised |-> FALSE, child |-> NullPrim]
    ELSE LET child_path == c[path].children[index + 1]
             child_prim == GetPrimAtPath(st, child_path)
         IN IF child_path \in DOMAIN c
            THEN [cache |-> c, raised |-> FALSE, child |-> c[child_path].prim]
            ELSE IF child_prim = NullPrim
            THEN [cache |-> [q \in DOMAIN c \cup {EmptyPath} |->
                               IF q \in DOMAIN c THEN c[q]
                               ELSE Proxy(NullPrim, <<>>)],
                  raised |-> TRUE, child |-> NullPrim]
            ELSE [cache |-> RegisterPrim(st, c, child_prim),
                  raised |-> FALSE, child |-> child_prim]

\* HierarchyCache.get_row of the cached proxy at path: the lookups that
\* raise (KeyError for the parent, ValueError for list.index) and the row.
GetRowRaises(c, path) ==
    /\ path # RootPath
    /\ \/ GetParentPath(path) \notin DOMAIN c
       \/ path \notin Range(c[GetParentPath(path)].children)

GetRow(c, path) ==
    IF path = RootPath THEN 0
    ELSE IndexOf(c[GetParentPath(path)].children, path) - 1

(***************************************************************************)
(* HierarchyModel (prim_hierarchy_model.py).  A model index is             *)
(* [row, prim, freed]: its row, the prim of the Proxy its internal pointer *)
(* points to, and whether the cache has dropped that Proxy (the index      *)
(* holds no reference of its own, the pointer then dangles).  The model    *)
(* has one column.                                                         *)
(***************************************************************************)
Index(row, prim) == [row |-> row, prim |-> prim, freed |-> FALSE]

\* layout_change_context without its try/finally.
LayoutChangeContextNoFinally(bodyRaised) ==
    IF bodyRaised THEN <<"layoutAboutToBeChanged">>
    ELSE <<"layoutAboutToBeChanged">> \o <<"layoutChanged">>

\* layout_change_context around a body that ended by raising or not.
LayoutChangeContext(bodyRaised) ==
    <<"layoutAboutToBeChanged">> \o <<"layoutChanged">>

\* The second loop of on_objects_changed: the new index of a collected one
\* (none when its path has left the cache).
NewIndices(c, index) ==
    LET path == index.prim.path IN
    IF path \notin DOMAIN c THEN {}
    ELSE IF index.row # GetRow(c, path)
    THEN {Index(GetRow(c, path), c[path].prim)}
    ELSE {index}

\* The first loop of on_objects_changed: the indices it will update.
CollectIndices(pers, resynced_paths_and_parents) ==
    { index \in pers :
        \/ index.prim.path \in resynced_paths_and_parents
        \/ GetParentPath(index.prim.path) \in resynced_paths_and_parents }

\* An index whose Proxy the cache has dropped points to freed memory.
MarkFreed(pers, c) ==
    { IF index.prim.path \in DOMAIN c THEN index
      ELSE [index EXCEPT !.freed = TRUE] : index \in pers }

\* HierarchyModel.on_objects_changed with the notice's paths, after an edit
\* that ended the prims at `dead`.  `parents` is the order of
\* resync_subtrees' loop; `dangling` tells whether reading a dangling
\* internal pointer fails.
OnObjectsChanged(st, c, pers, notice, parents, dangling) ==
    LET resynced_paths ==
            { p \in notice : IsPrimPath(p) \/ IsAbsoluteRootPath(p) }
        resynced_paths_and_parents ==
            resynced_paths \cup { GetParentPath(p) : p \in resynced_paths }
        collected == CollectIndices(pers, resynced_paths_and_parents)
        r == ResyncParents(st, c, parents)
        rowRaises ==
            \E index \in collected :
                /\ index.prim.path \in DOMAIN r.cache
                /\ GetRowRaises(r.cache, index.prim.path)
        updated ==
            (pers \ collected)
              \cup UNION { NewIndices(r.cache, index) : index \in collected }
    IN  IF resynced_paths = {}
        THEN [cache |-> c, persistent |-> pers, raised |-> NotRaised,
              signals |-> <<>>]
        ELSE IF dangling
        THEN [cache |-> c, persistent |-> pers, raised |-> "internalPointer",
              signals |-> LayoutChangeContext(TRUE)]
        ELSE IF r.raised # NotRaised
        THEN [cache |-> r.cache, persistent |-> MarkFreed(pers, r.cache),
              raised |-> r.raised, signals |-> LayoutChangeContext(TRUE)]
        ELSE IF rowRaises
        THEN [cache |-> r.cache, persistent |-> MarkFreed(pers, r.cache),
              raised |-> "get_row", signals |-> LayoutChangeContext(TRUE)]
        ELSE [cache |-> r.cache, persistent |-> MarkFreed(updated, r.cache),
              raised |-> NotRaised, signals |-> LayoutChangeContext(FALSE)]

(***************************************************************************)
(* The two ways the stage's notice is handled: by the cache alone          *)
(* (resync_subtrees with the resynced paths) and by the model              *)
(* (on_objects_changed), after an edit that made the stage st and ended    *)
(* the prims at the paths dead.  The notice is sent synchronously, within  *)
(* the edit, so an edit and its handling are one step.                     *)
(***************************************************************************)
ResyncSubtrees(st, dead, notice) ==
    /\ resynced' = notice
    /\ \E parents \in Orderings(UniqueParents(notice)) :
         LET r == ResyncParents(st, Expire(path_to_proxy, dead), parents) IN
         /\ path_to_proxy' = r.cache
         /\ raised' = r.raised
    /\ UNCHANGED <<persistent, signals, namespace, notCacheVars>>

NotifyModel(st, dead, notice) ==
    LET pers == { [index EXCEPT !.prim = ExpirePrim(@, dead)] :
                    index \in persistent }
        paths == { p \in notice : IsPrimPath(p) \/ IsAbsoluteRootPath(p) }
    IN
    /\ \E parents \in Orderings(UniqueParents(paths)) :
         \E dangling \in { FALSE } \cup { \E index \in pers : index.freed } :
           LET r == OnObjectsChanged(st, Expire(path_to_proxy, dead), pers,
                                     notice, parents, dangling) IN
           /\ path_to_proxy' = r.cache
           /\ persistent' = r.persistent
           /\ raised' = r.raised
           /\ signals' = r.signals
    /\ UNCHANGED <<resynced, namespace, notCacheVars>>

(***************************************************************************)
(* The edits that can be made of the stage st, which holds prims at the    *)
(* paths U: each is the stage after it, the paths of the prims it ended    *)
(* and the resynced paths of its notice.                                   *)
(***************************************************************************)
Edit(st, dead, notice) == [stage |-> st, dead |-> dead, notice |-> notice]

DefinePrimEdits(st, U) ==
    { Edit(DefinePrim(st, path), {}, {path}) :
        path \in { p \in U \ {RootPath} :
                     ~OnStage(st, p) /\ OnStage(st, GetParentPath(p)) } }

RemovePrimEdits(st) ==
    { Edit(RemovePrim(st, path), Descendants(path), {path}) :
        path \in StagePrims(st) \ {RootPath} }

SetPassEdits(st) ==
    { Edit(SetPass(st, path), {}, {path}) :
        path \in StagePrims(st) \ {RootPath} }

ReorderChildrenEdits(st) ==
    UNION { { Edit(ReorderChildren(st, path, order), {}, {path}) :
                order \in Orderings(Range(st.children[path]))
                            \ {st.children[path]} } :
            path \in StagePrims(st) }

RenamePrimEdits(st, U) ==
    UNION { { Edit(RenamePrim(st, path, new_path), {path}, {path, new_path}) :
                new_path \in { p \in U \ {RootPath} :
                                 /\ GetParentPath(p) = GetParentPath(path)
                                 /\ ~OnStage(st, p) } } :
            path \in { p \in StagePrims(st) \ {RootPath} :
                         st.children[p] = <<>> } }

\* A property is created on a prim: the notice names the property only.
CreatePropertyEdits(st) ==
    { Edit(st, {}, {Append(path, PropertyName)}) :
        path \in StagePrims(st) \ {RootPath} }

\* An edit handled by the cache alone, and by the model.
ResyncAfter(edit) ==
    /\ stage' = edit.stage
    /\ ResyncSubtrees(edit.stage, edit.dead, edit.notice)

NotifyAfter(edit) ==
    /\ stage' = edit.stage
    /\ NotifyModel(edit.stage, edit.dead, edit.notice)

(***************************************************************************)
(* schedule (lib/qt.py) and the handlers that debounce with it.  Time is   *)
(* counted in milliseconds and passes in steps of TimeStep.  A QTimer is   *)
(* [func, channel, remaining, active]; func is the bound method it calls.  *)
(***************************************************************************)
TimeStep == 10

\* The number of notices sent in a behaviour.
MaxNotices == 3

\* schedule(self.refresh, 50, channel="layerschanged")
LayersChangedDelay == 50

\* schedule(self.on_refresh, 100, channel="changes")
ChangesDelay == 100

\* The LayerStackModels of the process.
Models == {1, 2}

Refresh(model) == [name |-> "refresh", self |-> model]

OnRefresh == [name |-> "on_refresh", self |-> 0]

Min(a, b) == IF a < b THEN a ELSE b

Max(a, b) == IF a > b THEN a ELSE b

\* QTimer(); setSingleShot(True); timeout.connect(func); start(time)
QTimer(func, channel, time) ==
    [func |-> func, channel |-> channel, remaining |-> time, active |-> TRUE]

\* QTimer.stop()
Stop(timer) == [timer EXCEPT !.remaining = -1, !.active = FALSE]

\* schedule without its stop() of the channel's job.
StopJobSkipped(j, channel) == j

\* try: SharedObjects.jobs[channel].stop(); except KeyError: pass
StopJob(j, channel) ==
    IF channel \in DOMAIN j THEN [j EXCEPT ![channel] = Stop(@)] ELSE j

\* schedule(func, time, channel) on the jobs j: the new jobs, and the timers
\* that are still running when the channel stops referring to them.
Schedule(j, o, func, time, channel) ==
    LET stopped == StopJob(j, channel)
        dropped == IF channel \in DOMAIN stopped /\ stopped[channel].active
                   THEN {stopped[channel]} ELSE {}
    IN [ jobs    |-> [c \in DOMAIN j \cup {channel} |->
                        IF c = channel THEN QTimer(func, channel, time)
                        ELSE stopped[c]],
         orphans |-> o \cup dropped,
         before  |-> j ]

\* LayerStackModel.on_layers_changed of each model of `models`, in order.
RECURSIVE OnLayersChanged(_, _, _)
OnLayersChanged(j, o, models) ==
    LET r == Schedule(j, o, Refresh(Head(models)), LayersChangedDelay,
                      "layerschanged")
    IN IF Len(models) = 1 THEN r
       ELSE OnLayersChanged(r.jobs, r.orphans, Tail(models))

NoCall == [channel |-> "none"]

NoTimer == [func |-> "none"]

NotObserved == [called |-> FALSE, since |-> 0, runs |-> 0, early |-> FALSE]

Notified(obs, models) ==
    [m \in Models |->
        IF m \in models
        THEN [called |-> TRUE, since |-> 0, runs |-> 0, early |-> obs[m].early]
        ELSE obs[m]]

\* No timer was ever scheduled.
TimerIdle ==
    /\ jobs = << >>
    /\ orphans = {}
    /\ listeners = {}
    /\ observed = [m \in Models |-> NotObserved]
    /\ lastCall = NoCall
    /\ lastFired = NoTimer
    /\ notices = 0

(***************************************************************************)
(* Renaming a prim from the item model (setData, lib/usd.py rename_prim).  *)
(* A layer is the set of the paths at which it holds a prim spec; the      *)
(* stage has a prim where a layer of its layer stack has a prim spec.      *)
(***************************************************************************)
Layers == {"session", "root"}

\* The paths at which prim specs are created.
SpecPaths == { <<"A">>, <<"B">>, <<"A", "C">> }

\* The number of prim specs created in a layer.
MaxSpecs == 2

\* The values an editor hands to setData.
Values == {"", "A", "B"}

Roles == {"EditRole", "DisplayRole"}

NoLayers == [l \in Layers |-> {}]

ComposedPrims(ls) == UNION { ls[l] : l \in Layers }

\* Sdf.Path.ReplaceName
ReplaceName(path, name) == SubSeq(path, 1, Len(path) - 1) \o <<name>>

\* The path of a spec at or below src_prim_path after the namespace edit.
ReplacePrefix(path, src_prim_path, dest_prim_path) ==
    IF HasPrefix(path, src_prim_path)
    THEN dest_prim_path \o SubSeq(path, Len(src_prim_path) + 1, Len(path))
    ELSE path

\* move_prim_spec within one parent: Sdf.NamespaceEdit.Rename, which the
\* layer does not apply when the new name is no identifier or is taken.
MovePrimSpec(layer, src_prim_path, dest_prim_path) ==
    IF \/ src_prim_path = dest_prim_path
       \/ dest_prim_path[Len(dest_prim_path)] = ""
       \/ dest_prim_path \in layer
    THEN layer
    ELSE { ReplacePrefix(p, src_prim_path, dest_prim_path) : p \in layer }

\* rename_prim(prim, new_name) with the stage's layers ls.
RenamePrimSpecs(ls, prim_path, new_name) ==
    IF prim_path[Len(prim_path)] = new_name THEN ls
    ELSE [l \in Layers |->
            IF prim_path \in ls[l]
            THEN MovePrimSpec(ls[l], prim_path,
                              ReplaceName(prim_path, new_name))
            ELSE ls[l]]

\* A model index of column 0 on the prim at path, and the invalid index.
PrimIndex(path) == [column |-> 0, path |-> path]

InvalidIndex == [column |-> -1, path |-> EmptyPath]

\* setData without its check of the value.
SetDataUnchecked(ls, index, value, role) ==
    IF role = "EditRole" /\ index.column = 0
    THEN [layers |-> RenamePrimSpecs(ls, index.path, value), result |-> TRUE]
    ELSE [layers |-> ls, result |-> FALSE]

\* HierarchyModel.setData(index, value, role); QAbstractItemModel.setData,
\* the base implementation, returns False.
SetData(ls, index, value, role) ==
    IF role = "EditRole" /\ index.column = 0
    THEN IF value = ""
         THEN [layers |-> ls, result |-> FALSE]
         ELSE [layers |-> RenamePrimSpecs(ls, index.path, value),
               result |-> TRUE]
    ELSE [layers |-> ls, result |-> FALSE]

NoSetData == [role |-> "none"]

\* No stage is open in the outliner.
RenameIdle ==
    /\ layers = NoLayers
    /\ setDataCall = NoSetData

(***************************************************************************)
(* report_error (lib/qt.py).  What a call does is an outcome: it returns a *)
(* value or raises an error; an error is its type and its __cause__.       *)
(***************************************************************************)
\* The errors that are Exceptions, and those that are BaseExceptions only.
Exceptions == {"KeyError", "ValueError", "RuntimeError"}

BaseExceptions == {"KeyboardInterrupt", "SystemExit"}

ReturnValues == {"None", "True", "False"}

\* The number of errors the log holds.
MaxLogged == 4

Returned(value) == [kind |-> "return", value |-> value]

Raised(type, cause) == [kind |-> "raise", type |-> type, cause |-> cause]

\* What a wrapped function may do.
FnOutcomes ==
    { Returned(v) : v \in ReturnValues }
      \cup { Raised(t, "None") : t \in Exceptions \cup BaseExceptions }

\* report_error's wrapper without its raise.
WrapSwallows(fn_outcome, logged) ==
    IF fn_outcome.kind = "raise" /\ fn_outcome.type \in Exceptions
    THEN [outcome |-> Returned("None"),
          log |-> Append(logged, fn_outcome.type)]
    ELSE [outcome |-> fn_outcome, log |-> logged]

\* report_error's wrapper around a call of fn that did fn_outcome:
\*   try: return fn(...)
\*   except Exception as exc:
\*       logging.error(exc, ...); raise RuntimeError(...) from exc
Wrap(fn_outcome, logged) ==
    IF fn_outcome.kind = "raise" /\ fn_outcome.type \in Exceptions
    THEN [outcome |-> Raised("RuntimeError", fn_outcome.type),
          log |-> Append(logged, fn_outcome.type)]
    ELSE [outcome |-> fn_outcome, log |-> logged]

NotReported == [kind |-> "none"]

\* No wrapped function was called.
ReportIdle ==
    /\ log = <<>>
    /\ reported = NotReported

(***************************************************************************)
(* copy_spec_merge (lib/usd_merge_spec.py).  A layer maps the paths of its *)
(* prim specs to the specs; a prim spec is its fields: specifier, typeName *)
(* and kind (standing for every other value field), each a value or        *)
(* Unauthored, and primChildren, the names of its child specs in order     *)
(* (<<>> when the field is not authored).                                  *)
(***************************************************************************)
Unauthored == "<unauthored>"

Specifiers == {"SpecifierDef", "SpecifierOver", "SpecifierClass"}

TypeNames == {"", "Xform", "Scope"}

Kinds == {"component", "group"}

ValueFields == {"specifier", "typeName", "kind"}

PrimSpec(specifier, typeName, kind, primChildren) ==
    [specifier |-> specifier, typeName |-> typeName, kind |-> kind,
     primChildren |-> primChildren]

\* The path copied from and to, the specs it may hold, and the specs of
\* its children.
MergePath == <<"A">>

RootSpecs ==
    { PrimSpec(s, t, k, <<>>) :
        s \in Specifiers, t \in TypeNames \cup {Unauthored},
        k \in Kinds \cup {Unauthored} }

ChildSpecs ==
    { PrimSpec("SpecifierOver", Unauthored, "group", <<>>),
      PrimSpec("SpecifierDef", "Scope", Unauthored, <<>>) }

EmptyLayer == << >>

\* The layer with the spec at MergePath and the children named in order.
MakeLayer(spec, order, children) ==
    [p \in {MergePath} \cup { Append(MergePath, n) : n \in Range(order) } |->
        IF p = MergePath THEN [spec EXCEPT !.primChildren = order]
        ELSE children[p[Len(p)]]]

LayersWith(orders) ==
    UNION { { MakeLayer(spec, order, children) :
                spec \in RootSpecs,
                children \in [Range(order) -> ChildSpecs] } :
            order \in orders }

SrcLayers == LayersWith({ <<>>, <<"x">> })

DestLayers == {EmptyLayer} \cup LayersWith({ <<>>, <<"x">>, <<"y", "x">> })

\* Sdf.ShouldCopyValue, the callback of a plain Sdf.CopySpec.
ShouldCopyValue(field, src_value, field_in_src, dest_value, field_in_dest) ==
    TRUE

\* should_copy_value_fn; src_value and dest_value are the GetInfo(field) of
\* the source and the destination spec.
ShouldCopyValueFn(field, src_value, field_in_src, dest_value, field_in_dest) ==
    IF field_in_dest /\ field_in_src
    THEN IF field = "specifier"
         THEN src_value \notin {"SpecifierOver", "SpecifierClass"}
         ELSE IF field = "typeName"
         THEN dest_value = ""
         ELSE TRUE
    ELSE TRUE

\* should_copy_children_fn: whether to copy, the children to copy and the
\* children of the destination after the copy.
ShouldCopyChildrenFn(src_children, field_in_src, dest_children, field_in_dest) ==
    IF field_in_dest /\ ~field_in_src
    THEN [copy |-> FALSE, src_children |-> <<>>,
          dest_children |-> dest_children]
    ELSE IF field_in_dest /\ field_in_src
    THEN [copy |-> TRUE, src_children |-> src_children,
          dest_children |->
            src_children \o SelectSeq(dest_children,
                                      LAMBDA c : c \notin Range(src_children))]
    ELSE [copy |-> TRUE, src_children |-> src_children,
          dest_children |-> src_children]

\* The spec Sdf.CopySpec creates where the destination has none.
NewSpec == PrimSpec(Unauthored, Unauthored, Unauthored, <<>>)

\* Sdf.CopySpec(src, path, dst, path, should_copy_value_fn,
\* should_copy_children_fn): for every value field of either spec the
\* callback decides whether the destination gets the source's value (none,
\* when the source does not author the field); the children callback
\* decides which children are copied, each as a spec of its own, and which
\* children the destination lists afterwards.
RECURSIVE CopySpec(_, _, _)
RECURSIVE CopyChildren(_, _, _, _)
CopySpec(src, dst, path) ==
    LET s == src[path]
        d == IF path \in DOMAIN dst THEN dst[path] ELSE NewSpec
        Value(f) ==
            IF /\ s[f] # Unauthored \/ d[f] # Unauthored
               /\ ShouldCopyValueFn(f, s[f], s[f] # Unauthored,
                                    d[f], d[f] # Unauthored)
            THEN s[f] ELSE d[f]
        called == s.primChildren # <<>> \/ d.primChildren # <<>>
        c == ShouldCopyChildrenFn(s.primChildren, s.primChildren # <<>>,
                                  d.primChildren, d.primChildren # <<>>)
        children == IF called /\ c.copy THEN c.dest_children
                    ELSE d.primChildren
        removed == { q \in DOMAIN dst :
                       \E n \in Range(d.primChildren) \ Range(children) :
                         HasPrefix(q, Append(path, n)) }
        spec == PrimSpec(Value("specifier"), Value("typeName"),
                         Value("kind"), children)
    IN CopyChildren(src,
                    [q \in (DOMAIN dst \cup {path}) \ removed |->
                        IF q = path THEN spec ELSE dst[q]],
                    path,
                    IF called /\ c.copy THEN c.src_children ELSE <<>>)

CopyChildren(src, dst, path, names) ==
    IF names = <<>> THEN dst
    ELSE CopyChildren(src, CopySpec(src, dst, Append(path, Head(names))),
                      path, Tail(names))

\* copy_spec_merge(src_layer, src_path, dest_layer, dest_path)
CopySpecMerge(src, dst, path) == CopySpec(src, dst, path)

NotMerged == [copied |-> FALSE, moved |-> FALSE]

\* Sdf.CreatePrimInLayer(layer, path) where the layer has no prim spec: an
\* Over without opinions.
CreatePrimInLayer(layer, path) ==
    [q \in DOMAIN layer \cup {path} |->
        IF q = path
        THEN PrimSpec("SpecifierOver", Unauthored, Unauthored, <<>>)
        ELSE layer[q]]

\* remove_spec(spec) of the prim spec at path: the spec goes from its
\* parent's children, with the specs below it.
RemoveSpec(layer, path) ==
    [q \in { x \in DOMAIN layer : ~HasPrefix(x, path) } |-> layer[q]]

\* SpecEditsWidget.move_selection_to_layer(target_layer) with the prim spec
\* at path of the layer src selected: the target layer afterwards.
MoveToLayer(src, target_layer, path) ==
    CopySpecMerge(src,
                  IF path \in DOMAIN target_layer THEN target_layer
                  ELSE CreatePrimInLayer(target_layer, path),
                  path)

\* No layer is being copied.
MergeIdle ==
    /\ src_layer = EmptyLayer
    /\ dest_layer = EmptyLayer
    /\ merged = NotMerged

(***************************************************************************)
(* repath_properties (lib/usd.py).  A path is taken as its string, a       *)
(* sequence of characters: "/A/C.x" is the property x of the prim /A/C.    *)
(* The layer is the lists of its relationship and attribute specs: the     *)
(* targets of a relationship, the connections of an attribute.             *)
(***************************************************************************)
\* The paths the lists of the layer name.
EntryPaths ==
    { <<"/", "A">>, <<"/", "A", ".", "x">>, <<"/", "A", "/", "C">>,
      <<"/", "A", "/", "C", ".", "x">>, <<"/", "A", "1">>, <<"/", "B">> }

\* The paths prims are moved from and to.
OldPaths == { <<"/", "A">>, <<"/", "B">> }

NewPaths == { <<"/", "N">>, <<"/", "A", "1">> }

\* The property specs of the layer with a list of paths.
PropertySpecs == {"rel", "conn"}

\* The number of paths in a list.
MaxEntries == 2

\* str.startswith
StartsWith(text, prefix) == HasPrefix(text, prefix)

\* Sdf.Path.HasPrefix: the path itself, a property of it or a descendant.
PathHasPrefix(path, prefix) ==
    \/ path = prefix
    \/ StartsWith(path, prefix \o <<"/">>)
    \/ StartsWith(path, prefix \o <<".">>)

\* replace_in_list's test of an entry, and the entry it writes.
RepathMatches(entry, old_path) ==
    entry = old_path \/ StartsWith(entry, old_path \o <<"/">>)

RepathEntry(entry, old_path, new_path) ==
    IF RepathMatches(entry, old_path)
    THEN new_path \o SubSeq(entry, Len(old_path) + 1, Len(entry))
    ELSE entry

\* repath_properties(layer, old_path, new_path): the lists afterwards and
\* the value returned.
RepathProperties(lists, old_path, new_path) ==
    [ lists  |-> [spec \in PropertySpecs |->
                    [i \in 1..Len(lists[spec]) |->
                       RepathEntry(lists[spec][i], old_path, new_path)]],
      result |-> \E spec \in PropertySpecs :
                   \E i \in 1..Len(lists[spec]) :
                     RepathMatches(lists[spec][i], old_path) ]

\* The lists of at most MaxEntries paths, each path once.
PathLists ==
    UNION { { list \in [1..n -> EntryPaths] :
                \A i, j \in 1..n : list[i] = list[j] => i = j } :
            n \in 0..MaxEntries }

NotRepathed == [called |-> FALSE]

\* No layer is being re-pathed.
RepathIdle ==
    /\ targets = [spec \in PropertySpecs |-> <<>>]
    /\ repathed = NotRepathed

(***************************************************************************)
(* ItemTree (tree/itemtree.py).  The tree is its three dictionaries:       *)
(* _parent_to_children, _child_to_parent and _key_to_item.  Two items of   *)
(* the model, a and d, have the same key.                                  *)
(***************************************************************************)
Items == {"a", "b", "c", "d"}

Root == "root"

\* TreeItem.key
Key(item) ==
    CASE item = Root -> "__ROOT__"
      [] item \in {"a", "d"} -> "k1"
      [] item = "b" -> "k2"
      [] OTHER -> "k3"

\* The number of items handed to add_items in one call.
MaxIncoming == 2

NoException == "None"

\* ItemTree.__init__
NewItemTree ==
    [ parent_to_children |-> [p \in {Root} |-> <<>>],
      child_to_parent    |-> [c \in {} |-> Root],
      key_to_item        |-> [k \in {Key(Root)} |-> Root] ]

\* ItemTree.__contains__
Contains(t, item) == item \in DOMAIN t.parent_to_children

Restrict(f, S) == [x \in S |-> f[x]]

\* The first loop of add_items without the test of the keys in the tree.
ScanItemsUnchecked(t, items, i, newItems) ==
    [ newItems |-> SelectSeq(items,
                     LAMBDA item : item \notin DOMAIN t.child_to_parent),
      raised   |-> NoException ]

\* The first loop of add_items from the i-th incoming item on: the new
\* items, or the exception of the first item that cannot be added.
RECURSIVE ScanItems(_, _, _, _)
ScanItems(t, items, i, newItems) ==
    IF i > Len(items)
    THEN [newItems |-> newItems, raised |-> NoException]
    ELSE LET item == items[i] IN
         IF item \in DOMAIN t.child_to_parent
         THEN ScanItems(t, items, i + 1, newItems)
         ELSE IF Key(item) \in DOMAIN t.key_to_item
         THEN [newItems |-> newItems, raised |-> "ValueError"]
         ELSE IF \E j \in 1..Len(newItems) : Key(newItems[j]) = Key(item)
         THEN [newItems |-> newItems, raised |-> "ValueError"]
         ELSE ScanItems(t, items, i + 1, Append(newItems, item))

\* The second loop of add_items: the new items become children of parent.
InsertItems(t, newItems, parent) ==
    LET new == Range(newItems) IN
    [ parent_to_children |->
        [p \in DOMAIN t.parent_to_children \cup new |->
           IF p = parent THEN t.parent_to_children[parent] \o newItems
           ELSE IF p \in new THEN <<>>
           ELSE t.parent_to_children[p]],
      child_to_parent |->
        [c \in DOMAIN t.child_to_parent \cup new |->
           IF c \in new THEN parent ELSE t.child_to_parent[c]],
      key_to_item |->
        [k \in DOMAIN t.key_to_item \cup { Key(item) : item \in new } |->
           IF \E item \in new : Key(item) = k
           THEN CHOOSE item \in new :
                  /\ Key(item) = k
                  /\ \A j \in 1..Len(newItems) :
                       Key(newItems[j]) = k =>
                         \E h \in j..Len(newItems) : newItems[h] = item
           ELSE t.key_to_item[k]] ]

\* add_items(items, parent): the tree afterwards, the list returned and the
\* exception raised.  The parent "None" stands for the root.
AddItems(t, items, parent) ==
    LET p == IF parent = "None" THEN Root ELSE parent IN
    IF items = <<>>
    THEN [tree |-> t, result |-> <<>>, raised |-> NoException]
    ELSE IF ~Contains(t, p)
    THEN [tree |-> t, result |-> <<>>, raised |-> "ItemLookupError"]
    ELSE LET scan == ScanItems(t, items, 1, <<>>) IN
         IF scan.raised # NoException
         THEN [tree |-> t, result |-> <<>>, raised |-> scan.raised]
         ELSE [tree |-> InsertItems(t, scan.newItems, p),
               result |-> scan.newItems, raised |-> NoException]

\* The end of the loop body of remove_items: the item leaves the three
\* dictionaries.
PopItem(t, item) ==
    LET itemParent == t.child_to_parent[item] IN
    [ parent_to_children |->
        [p \in DOMAIN t.parent_to_children \ {item} |->
           IF p = itemParent
           THEN SelectSeq(t.parent_to_children[p], LAMBDA c : c # item)
           ELSE t.parent_to_children[p]],
      child_to_parent |->
        Restrict(t.child_to_parent, DOMAIN t.child_to_parent \ {item}),
      key_to_item |->
        Restrict(t.key_to_item, DOMAIN t.key_to_item \ {Key(item)}) ]

\* remove_items(items, childAction='delete'): the outcomes of the call, one
\* for every order in which the loop can visit the set of items.  An
\* outcome is the tree afterwards, the list returned and the exception
\* raised.
RECURSIVE RemoveItems(_, _)
RECURSIVE RemoveLoop(_, _, _)
RemoveItems(t, items) ==
    IF items \ {Root} = {}
    THEN { [tree |-> t, result |-> <<>>, raised |-> NoException] }
    ELSE RemoveLoop(t, items \ {Root}, <<>>)

RemoveLoop(t, remaining, removed) ==
    IF remaining = {}
    THEN { [tree |-> t, result |-> removed, raised |-> NoException] }
    ELSE UNION {
           IF ~Contains(t, item_to_delete)
           THEN { [tree |-> t, result |-> <<>>,
                   raised |-> "ItemLookupError"] }
           ELSE LET children == t.parent_to_children[item_to_delete]
                    deleted ==
                      IF children # <<>>
                      THEN RemoveItems(t, Range(children))
                      ELSE { [tree |-> t, result |-> <<>>,
                              raised |-> NoException] }
                IN UNION {
                     IF d.raised # NoException
                     THEN { d }
                     ELSE RemoveLoop(PopItem(d.tree, item_to_delete),
                                     remaining \ {item_to_delete},
                                     removed \o d.result
                                       \o <<item_to_delete>>) :
                     d \in deleted } :
           item_to_delete \in remaining }

\* The lists of incoming items.
Incoming ==
    UNION { [1..n -> Items] : n \in 0..MaxIncoming }

\* The parents handed to add_items; None stands for the root.
Parents == {"None", "a", "b"}

NoTreeCall == [added |-> FALSE, removed |-> FALSE]

\* No item tree is in use.
TreeIdle ==
    /\ tree = NewItemTree
    /\ treeCall = NoTreeCall

(***************************************************************************)
(* render_playblast (render_util/playblast.py).  A call is followed from   *)
(* its tests of the arguments through the loop over the frames, one step   *)
(* for each call of FrameRecorder.Record, to its return.                   *)
(***************************************************************************)
\* The last time code of a frame specification.
MaxFrame == 4

Strides == {1, 2}

\* The frames strings: empty, or first:last x stride.
FrameSpecs ==
    { <<>> } \cup
    { <<first, last, stride>> :
        first \in 1..MaxFrame, last \in 1..MaxFrame, stride \in Strides }

EarliestTime == 0

\* FrameSpecIterator(frames): the time codes of first:last x stride, up or
\* down.
FrameSpecIterator(frames) ==
    LET first == frames[1]
        last == frames[2]
        stride == frames[3]
        n == IF first <= last THEN (last - first) \div stride + 1
             ELSE (first - last) \div stride + 1
    IN [i \in 1..n |-> IF first <= last THEN first + (i - 1) * stride
                       ELSE first - (i - 1) * stride]

\* The time codes the loop visits.
FrameIterator(frames) ==
    IF frames = <<>> THEN <<EarliestTime>> ELSE FrameSpecIterator(frames)

\* outputpath.format(frame=time_code.GetValue())
CurrentFrame(time_code) == <<"outputpath", time_code>>

NoPlayblast ==
    [ pc |-> "idle", frame_iterator |-> <<>>, frame_nr |-> 0,
      output_files |-> <<>>, recorded |-> <<>>, aborted |-> FALSE,
      raised |-> NoException ]

\* The loop going on with the next frame after Record raised.
RecordFailedContinue(p) ==
    [p EXCEPT !.aborted = TRUE, !.frame_nr = @ + 1,
              !.pc = IF p.frame_nr + 1 >= Len(p.frame_iterator)
                     THEN "return" ELSE "loop"]

\* The loop after Record raised Tf.ErrorException: break.
RecordFailed(p) == [p EXCEPT !.aborted = TRUE, !.pc = "return"]

\* The loop after Record returned: the file is appended.
RecordDone(p) ==
    LET time_code == p.frame_iterator[p.frame_nr + 1] IN
    [p EXCEPT !.output_files = Append(@, CurrentFrame(time_code)),
              !.recorded = Append(@, time_code),
              !.frame_nr = @ + 1,
              !.pc = IF p.frame_nr + 1 >= Len(p.frame_iterator)
                     THEN "return" ELSE "loop"]

\* No playblast is rendered.
PlayblastIdle == playblast = NoPlayblast

(***************************************************************************)
(* using_tempfolder (render_util/base.py) around a function that writes    *)
(* files to the temp folder and defers their deletion to its exit, as      *)
(* routine_rotate_subject of the turntable dialog does.                    *)
(***************************************************************************)
\* The number of files the wrapped function writes.
MaxFiles == 4

TempFiles == 1..MaxFiles

NoTempfolder == [exists |-> FALSE, files |-> {}]

NotWrapped == [pc |-> "idle", deferred |-> {}, raised |-> NoException]

\* os.mkdir(tempfolder) unless os.path.isdir(tempfolder)
MakeTempfolder(folder) ==
    IF folder.exists THEN folder ELSE [exists |-> TRUE, files |-> {}]

\* os.rmdir(tempfolder): the folder afterwards and the exception raised;
\* a folder with files in it is not removed.
Rmdir(folder) ==
    IF ~folder.exists
    THEN [folder |-> folder, raised |-> "FileNotFoundError"]
    ELSE IF folder.files # {}
    THEN [folder |-> folder, raised |-> "OSError"]
    ELSE [folder |-> NoTempfolder, raised |-> NoException]

\* The end of the wrapper after func raised: the exception leaves the
\* wrapper, os.rmdir is not reached.
AfterRaise(folder) == [folder |-> folder, raised |-> "Exception"]

\* defer_file_deletion at the exit of its context: os.remove(path)
RemoveDeferred(folder, deferred) ==
    [folder EXCEPT !.files = @ \ deferred]

\* No wrapped function runs and there is no temp folder.
TempfolderIdle ==
    /\ tempfolder = NoTempfolder
    /\ wrapped = NotWrapped

(***************************************************************************)
(* The outliner's HierarchyModel (prim_hierarchy.py): its stage, the       *)
(* Tf.Notice listener it holds, the paths of the indices it has created    *)
(* and the number of notices it has handled.  A listener is named by the   *)
(* stage it is registered with; it is revoked when the model drops it, so  *)
(* the stage's notices reach the model only while it holds the listener.   *)
(***************************************************************************)
NoStage == "None"

NoListener == "None"

\* The stages a model is given: none, a closed one and two open ones.
Stages == {NoStage, "expired", "stage1", "stage2"}

\* bool(self._stage and self._stage.GetPseudoRoot())
IsValidStage(st) == st \in {"stage1", "stage2"}

\* The prims of a stage the views ask indices for.
OutlinerPaths == { <<"A">>, <<"B">>, <<"A", "C">> }

\* The resynced paths of a notice: none, a property only, a prim.
ResyncedPaths ==
    { {}, { <<"A", PropertyName>> }, { <<"A">> },
      { <<"B">>, <<"A", PropertyName>> } }

\* The number of notices a model handles.
MaxHandled == 3

\* HierarchyModel.__init__ before its call of set_stage.
NewOutliner ==
    [ stage |-> NoStage, listener |-> NoListener, indices |-> {},
      handled |-> 0 ]

\* reset_context up to its yield: the caches are cleared and the listener
\* is dropped.
ResetContext(model) ==
    [model EXCEPT !.indices = {}, !.listener = NoListener]

\* HierarchyModel.set_stage
SetStage(model, value) ==
    IF value = model.stage THEN model
    ELSE LET reset == ResetContext([model EXCEPT !.stage = value]) IN
         IF IsValidStage(value)
         THEN [reset EXCEPT !.listener = value]
         ELSE reset

\* HierarchyModel.on_objects_changed
OutlinerOnObjectsChanged(model, resynced_paths) ==
    LET prim_paths == { path \in resynced_paths : IsPrimPath(path) }
        counted == [model EXCEPT !.handled = @ + 1]
    IN IF prim_paths = {} THEN counted ELSE ResetContext(counted)

\* HierarchyModel.createIndex: the index of the prim is kept by its path.
CreateIndex(model, path) == [model EXCEPT !.indices = @ \cup {path}]

\* No outliner is open.
OutlinerIdle == outliner = NewOutliner

\* No stage is open.
CacheIdle ==
    /\ stage = StageInit
    /\ path_to_proxy = CacheInit(StageInit)
    /\ resynced = {}
    /\ raised = NotRaised
    /\ persistent = {}
    /\ signals = <<>>
    /\ namespace = {RootPath}

(***************************************************************************)
(* The cache alone.                                                        *)
(***************************************************************************)
CacheGetChild ==
    \E path \in DOMAIN path_to_proxy :
      \E index \in 0..Len(path_to_proxy[path].children) :
        LET r == GetChild(stage, path_to_proxy, path, index) IN
        /\ path_to_proxy' = r.cache
        /\ resynced' = {}
        /\ UNCHANGED <<stage, raised, persistent, signals, namespace,
                       notCacheVars>>

CacheSpecInit ==
    /\ stage = StageInit
    /\ path_to_proxy = CacheInit(StageInit)
    /\ resynced = {}
    /\ raised = NotRaised
    /\ persistent = {}
    /\ signals = <<>>
    /\ namespace = CachePaths
    /\ TimerIdle
    /\ RenameIdle
    /\ ReportIdle
    /\ MergeIdle
    /\ RepathIdle
    /\ TreeIdle
    /\ PlayblastIdle
    /\ TempfolderIdle
    /\ OutlinerIdle

CacheDefinePrim ==
    \E edit \in DefinePrimEdits(stage, namespace) : ResyncAfter(edit)

CacheRemovePrim ==
    \E edit \in RemovePrimEdits(stage) : ResyncAfter(edit)

CacheSetPass ==
    \E edit \in SetPassEdits(stage) : ResyncAfter(edit)

CacheReorderChildren ==
    \E edit \in ReorderChildrenEdits(stage) : ResyncAfter(edit)

CacheRenamePrim ==
    \E edit \in RenamePrimEdits(stage, namespace) : ResyncAfter(edit)

CacheNext ==
    \/ CacheDefinePrim
    \/ CacheRemovePrim
    \/ CacheSetPass
    \/ CacheReorderChildren
    \/ CacheRenamePrim
    \/ CacheGetChild

CacheSpec == CacheSpecInit /\ [][CacheNext]_vars

(***************************************************************************)
(* The model with a view that holds persistent indices.                    *)
(***************************************************************************)
\* The number of persistent indices the views hold at a time.
MaxPersistent == 1

\* HierarchyModel.index(row, 0, parent) made persistent by a view; parent
\* is the invalid index (the row is the root's) or the index of a proxy of
\* the cache.
ModelIndexRoot ==
    /\ Cardinality(persistent) < MaxPersistent
    /\ persistent' = persistent \cup {Index(0, path_to_proxy[RootPath].prim)}
    /\ UNCHANGED <<stage, path_to_proxy, resynced, raised, signals,
                   namespace, notCacheVars>>

ModelIndexChild ==
    \E path \in DOMAIN path_to_proxy :
      \E row \in 0..Len(path_to_proxy[path].children) :
        LET hasIndex == /\ IsValid(path_to_proxy[path].prim)
                        /\ row < Len(path_to_proxy[path].children)
            r == GetChild(stage, path_to_proxy, path, row)
        IN
        /\ Cardinality(persistent) < MaxPersistent
        /\ path_to_proxy' = IF hasIndex THEN r.cache ELSE path_to_proxy
        /\ persistent' = IF hasIndex /\ ~r.raised
                         THEN persistent \cup {Index(row, r.child)}
                         ELSE persistent
        /\ UNCHANGED <<stage, resynced, raised, signals, namespace,
                       notCacheVars>>

\* A view lets go of a persistent index.
ModelReleaseIndex ==
    \E index \in persistent :
      /\ persistent' = persistent \ {index}
      /\ UNCHANGED <<stage, path_to_proxy, resynced, raised, signals,
                     namespace, notCacheVars>>

ModelDefinePrim ==
    \E edit \in DefinePrimEdits(stage, namespace) : NotifyAfter(edit)

ModelRemovePrim ==
    \E edit \in RemovePrimEdits(stage) : NotifyAfter(edit)

ModelReorderChildren ==
    \E edit \in ReorderChildrenEdits(stage) : NotifyAfter(edit)

ModelRenamePrim ==
    \E edit \in RenamePrimEdits(stage, namespace) : NotifyAfter(edit)

ModelCreateProperty ==
    \E edit \in CreatePropertyEdits(stage) : NotifyAfter(edit)

ModelNext ==
    \/ ModelDefinePrim
    \/ ModelRemovePrim
    \/ ModelReorderChildren
    \/ ModelRenamePrim
    \/ ModelCreateProperty
    \/ ModelIndexRoot
    \/ ModelIndexChild
    \/ ModelReleaseIndex

ModelSpecInit ==
    /\ stage = StageInit
    /\ path_to_proxy = CacheInit(StageInit)
    /\ resynced = {}
    /\ raised = NotRaised
    /\ persistent = {}
    /\ signals = <<>>
    /\ namespace \in {WidePaths, DeepPaths}
    /\ TimerIdle
    /\ RenameIdle
    /\ ReportIdle
    /\ MergeIdle
    /\ RepathIdle
    /\ TreeIdle
    /\ PlayblastIdle
    /\ TempfolderIdle
    /\ OutlinerIdle

ModelSpec == ModelSpecInit /\ [][ModelNext]_vars

(***************************************************************************)
(* The debounced handlers under the notices of the stage and the layers,   *)
(* and Qt's event loop, which runs the timers that are due.                *)
(***************************************************************************)
Timers == { jobs[c] : c \in DOMAIN jobs } \cup orphans

Due == { timer \in Timers : timer.active /\ timer.remaining = 0 }

IsCurrent(timer) ==
    timer.channel \in DOMAIN jobs /\ jobs[timer.channel] = timer

\* Sdf.Notice.LayersDidChange (and the other notices registered globally):
\* every registered model is called.
LayersDidChange ==
    /\ notices < MaxNotices
    /\ \E models \in Orderings(listeners) :
         LET r == OnLayersChanged(jobs, orphans, models) IN
         /\ jobs' = r.jobs
         /\ orphans' = r.orphans
         /\ lastCall' = [channel |-> "layerschanged", before |-> r.before]
    /\ observed' = Notified(observed, listeners)
    /\ lastFired' = NoTimer
    /\ notices' = notices + 1
    /\ UNCHANGED <<listeners, notTimerVars>>

\* Usd.Notice.LayerMutingChanged and StageEditTargetChanged, registered
\* with the model's own stage as sender: that model is called.
LayerMutingChanged ==
    /\ notices < MaxNotices
    /\ \E model \in listeners :
         LET r == OnLayersChanged(jobs, orphans, <<model>>) IN
         /\ jobs' = r.jobs
         /\ orphans' = r.orphans
         /\ lastCall' = [channel |-> "layerschanged", before |-> r.before]
         /\ observed' = Notified(observed, {model})
    /\ lastFired' = NoTimer
    /\ notices' = notices + 1
    /\ UNCHANGED <<listeners, notTimerVars>>

\* SpecEditorWindow.on_stage_changed_notice
StageContentsChanged ==
    /\ notices < MaxNotices
    /\ LET r == Schedule(jobs, orphans, OnRefresh, ChangesDelay, "changes") IN
       /\ jobs' = r.jobs
       /\ orphans' = r.orphans
       /\ lastCall' = [channel |-> "changes", before |-> r.before]
    /\ lastFired' = NoTimer
    /\ notices' = notices + 1
    /\ UNCHANGED <<listeners, observed, notTimerVars>>

\* A timer that is due times out: its function runs, and being single-shot
\* it stops.
Timeout ==
    \E timer \in Due :
      /\ jobs' = IF IsCurrent(timer)
                 THEN [jobs EXCEPT ![timer.channel] = Stop(@)] ELSE jobs
      /\ orphans' = IF IsCurrent(timer) THEN orphans ELSE orphans \ {timer}
      /\ observed' =
           IF timer.func.name = "refresh"
           THEN [observed EXCEPT ![timer.func.self] =
                   [@ EXCEPT !.runs = Min(@ + 1, 2),
                             !.early = @ \/ observed[timer.func.self].since
                                               < LayersChangedDelay]]
           ELSE observed
      /\ lastFired' = [func |-> timer.func, current |-> IsCurrent(timer)]
      /\ lastCall' = NoCall
      /\ UNCHANGED <<listeners, notices, notTimerVars>>

Elapse(timer) ==
    IF timer.active
    THEN [timer EXCEPT !.remaining = Max(0, @ - TimeStep)] ELSE timer

\* TimeStep milliseconds pass; the timers that are due have run.
Tick ==
    /\ Due = {}
    /\ \E timer \in Timers : timer.active
    /\ jobs' = [c \in DOMAIN jobs |-> Elapse(jobs[c])]
    /\ orphans' = { Elapse(timer) : timer \in orphans }
    /\ observed' = [m \in Models |->
                      [observed[m] EXCEPT
                         !.since = Min(LayersChangedDelay, @ + TimeStep)]]
    /\ lastCall' = NoCall
    /\ lastFired' = NoTimer
    /\ UNCHANGED <<listeners, notices, notTimerVars>>

TimerNext ==
    \/ LayersDidChange
    \/ LayerMutingChanged
    \/ StageContentsChanged
    \/ Timeout
    \/ Tick

\* One or two LayerStackModels have registered their listeners.
TimerSpecInit ==
    /\ jobs = << >>
    /\ orphans = {}
    /\ listeners \in {{1}, {1, 2}}
    /\ observed = [m \in Models |-> NotObserved]
    /\ lastCall = NoCall
    /\ lastFired = NoTimer
    /\ notices = 0
    /\ CacheIdle
    /\ RenameIdle
    /\ ReportIdle
    /\ MergeIdle
    /\ RepathIdle
    /\ TreeIdle
    /\ PlayblastIdle
    /\ TempfolderIdle
    /\ OutlinerIdle

TimerSpec == TimerSpecInit /\ [][TimerNext]_vars

\* The event loop runs: time passes, and a timer that is due times out.
TimerFairSpec == TimerSpec /\ WF_vars(Tick) /\ WF_vars(Timeout)

(***************************************************************************)
(* The outliner: prims are created in the layers, and the view's editor    *)
(* commits names through setData.                                          *)
(***************************************************************************)
\* A prim spec is created in a layer (the edit target of DefinePrim).
RenameCreatePrim ==
    \E l \in Layers :
      \E path \in SpecPaths \ layers[l] :
        /\ Cardinality(layers[l]) < MaxSpecs
        /\ Len(path) = 1 \/ GetParentPath(path) \in layers[l]
        /\ layers' = [layers EXCEPT ![l] = @ \cup {path}]
        /\ setDataCall' = NoSetData
        /\ UNCHANGED notRenameVars

RenameSetData ==
    \E index \in { PrimIndex(p) : p \in ComposedPrims(layers) }
                   \cup {InvalidIndex} :
      \E value \in Values :
        \E role \in Roles :
          LET r == SetData(layers, index, value, role) IN
          /\ layers' = r.layers
          /\ setDataCall' = [index |-> index, value |-> value, role |-> role,
                             result |-> r.result, before |-> layers]
          /\ UNCHANGED notRenameVars

RenameNext ==
    \/ RenameCreatePrim
    \/ RenameSetData

RenameSpecInit ==
    /\ layers = NoLayers
    /\ setDataCall = NoSetData
    /\ CacheIdle
    /\ TimerIdle
    /\ ReportIdle
    /\ MergeIdle
    /\ RepathIdle
    /\ TreeIdle
    /\ PlayblastIdle
    /\ TempfolderIdle
    /\ OutlinerIdle

RenameSpec == RenameSpecInit /\ [][RenameNext]_vars

(***************************************************************************)
(* Calls of functions wrapped in report_error.                             *)
(***************************************************************************)
ReportCall ==
    \E fn_outcome \in FnOutcomes :
      LET r == Wrap(fn_outcome, log) IN
      /\ Len(log) < MaxLogged
      /\ log' = r.log
      /\ reported' = [kind |-> "call", fn |-> fn_outcome,
                      outcome |-> r.outcome, before |-> log]
      /\ UNCHANGED notReportVars

ReportNext == ReportCall

ReportSpecInit ==
    /\ log = <<>>
    /\ reported = NotReported
    /\ CacheIdle
    /\ TimerIdle
    /\ RenameIdle
    /\ MergeIdle
    /\ RepathIdle
    /\ TreeIdle
    /\ PlayblastIdle
    /\ TempfolderIdle
    /\ OutlinerIdle

ReportSpec == ReportSpecInit /\ [][ReportNext]_vars

(***************************************************************************)
(* copy_spec_merge of the prim spec at MergePath of one layer onto another *)
(* layer.                                                                  *)
(***************************************************************************)
MergeCopySpec ==
    /\ MergePath \in DOMAIN src_layer
    /\ dest_layer' = CopySpecMerge(src_layer, dest_layer, MergePath)
    /\ merged' = [copied |-> TRUE, moved |-> FALSE, before |-> dest_layer]
    /\ UNCHANGED <<src_layer, notMergeVars>>

\* move_selection_to_layer with the prim spec at MergePath selected.
MergeMoveSelection ==
    /\ MergePath \in DOMAIN src_layer
    /\ dest_layer' = MoveToLayer(src_layer, dest_layer, MergePath)
    /\ src_layer' = RemoveSpec(src_layer, MergePath)
    /\ merged' = [copied |-> FALSE, moved |-> TRUE, before |-> dest_layer,
                  source |-> src_layer]
    /\ UNCHANGED notMergeVars

MergeNext ==
    \/ MergeCopySpec
    \/ MergeMoveSelection

MergeSpecInit ==
    /\ src_layer \in SrcLayers
    /\ dest_layer \in DestLayers
    /\ merged = NotMerged
    /\ CacheIdle
    /\ TimerIdle
    /\ RenameIdle
    /\ ReportIdle
    /\ RepathIdle
    /\ TreeIdle
    /\ PlayblastIdle
    /\ TempfolderIdle
    /\ OutlinerIdle

MergeSpec == MergeSpecInit /\ [][MergeNext]_vars

(***************************************************************************)
(* repath_properties on a layer after a prim was moved from old_path to a  *)
(* path that no list names yet.                                            *)
(***************************************************************************)
RepathCall ==
    \E old_path \in OldPaths :
      \E new_path \in NewPaths :
        LET r == RepathProperties(targets, old_path, new_path) IN
        /\ \A spec \in PropertySpecs :
             \A i \in 1..Len(targets[spec]) :
               ~PathHasPrefix(targets[spec][i], new_path)
        /\ targets' = r.lists
        /\ repathed' = [called |-> TRUE, old_path |-> old_path,
                        new_path |-> new_path, before |-> targets,
                        result |-> r.result]
        /\ UNCHANGED notRepathVars

RepathNext == RepathCall

RepathSpecInit ==
    /\ targets \in [PropertySpecs -> PathLists]
    /\ repathed = NotRepathed
    /\ CacheIdle
    /\ TimerIdle
    /\ RenameIdle
    /\ ReportIdle
    /\ MergeIdle
    /\ TreeIdle
    /\ PlayblastIdle
    /\ TempfolderIdle
    /\ OutlinerIdle

RepathSpec == RepathSpecInit /\ [][RepathNext]_vars

(***************************************************************************)
(* Calls of add_items and remove_items on one ItemTree.                    *)
(***************************************************************************)
TreeAddItems ==
    \E items \in Incoming :
      \E parent \in Parents :
        LET r == AddItems(tree, items, parent) IN
        /\ tree' = r.tree
        /\ treeCall' = [added |-> TRUE, removed |-> FALSE, before |-> tree,
                        items |-> items, raised |-> r.raised,
                        parent |-> IF parent = "None" THEN Root ELSE parent,
                        result |-> r.result]
        /\ UNCHANGED notTreeVars

TreeRemoveItems ==
    \E selection \in SUBSET DOMAIN tree.parent_to_children :
      \E r \in RemoveItems(tree, selection) :
        /\ tree' = r.tree
        /\ treeCall' = [added |-> FALSE, removed |-> TRUE, before |-> tree,
                        selection |-> selection, raised |-> r.raised,
                        result |-> r.result]
        /\ UNCHANGED notTreeVars

TreeNext ==
    \/ TreeAddItems
    \/ TreeRemoveItems

TreeSpecInit ==
    /\ tree = NewItemTree
    /\ treeCall = NoTreeCall
    /\ CacheIdle
    /\ TimerIdle
    /\ RenameIdle
    /\ ReportIdle
    /\ MergeIdle
    /\ RepathIdle
    /\ PlayblastIdle
    /\ TempfolderIdle
    /\ OutlinerIdle

TreeSpec == TreeSpecInit /\ [][TreeNext]_vars

(***************************************************************************)
(* One call of render_playblast after the other.                           *)
(***************************************************************************)
\* The call up to the loop: the directory must exist and the output path
\* must hold a frame placeholder.
PlayblastCall ==
    /\ playblast.pc \in {"idle", "returned", "raised"}
    /\ \E frames \in FrameSpecs :
         \E directory_exists \in BOOLEAN :
           \E placeholder \in BOOLEAN :
             playblast' =
               IF ~directory_exists
               THEN [NoPlayblast EXCEPT !.pc = "raised",
                                        !.raised = "FileNotFoundError"]
               ELSE IF ~placeholder
               THEN [NoPlayblast EXCEPT !.pc = "raised",
                                        !.raised = "ValueError"]
               ELSE [NoPlayblast EXCEPT
                       !.pc = "loop",
                       !.frame_iterator = FrameIterator(frames)]
    /\ UNCHANGED notPlayblastVars

\* frame_recorder.Record writes the frame.
PlayblastRecord ==
    /\ playblast.pc = "loop"
    /\ playblast' = RecordDone(playblast)
    /\ UNCHANGED notPlayblastVars

\* frame_recorder.Record raises Tf.ErrorException.
PlayblastRecordFails ==
    /\ playblast.pc = "loop"
    /\ playblast' = RecordFailed(playblast)
    /\ UNCHANGED notPlayblastVars

\* return output_files
PlayblastReturn ==
    /\ playblast.pc = "return"
    /\ playblast' = [playblast EXCEPT !.pc = "returned"]
    /\ UNCHANGED notPlayblastVars

PlayblastNext ==
    \/ PlayblastCall
    \/ PlayblastRecord
    \/ PlayblastRecordFails
    \/ PlayblastReturn

PlayblastSpecInit ==
    /\ playblast = NoPlayblast
    /\ CacheIdle
    /\ TimerIdle
    /\ RenameIdle
    /\ ReportIdle
    /\ MergeIdle
    /\ RepathIdle
    /\ TreeIdle
    /\ TempfolderIdle
    /\ OutlinerIdle

PlayblastSpec == PlayblastSpecInit /\ [][PlayblastNext]_vars

(***************************************************************************)
(* Calls of a function wrapped by using_tempfolder, one after the other.   *)
(***************************************************************************)
\* wrapper: the folder is made and func starts.
TempfolderCall ==
    /\ wrapped.pc \in {"idle", "returned", "raised"}
    /\ tempfolder' = MakeTempfolder(tempfolder)
    /\ wrapped' = [NotWrapped EXCEPT !.pc = "func"]
    /\ UNCHANGED notTempfolderVars

\* func writes a file to the temp folder.
TempfolderExport ==
    /\ wrapped.pc = "func"
    /\ \E file \in TempFiles \ tempfolder.files :
         tempfolder' = [tempfolder EXCEPT !.files = @ \cup {file}]
    /\ UNCHANGED <<wrapped, notTempfolderVars>>

\* func enters defer_file_deletion for a file it wrote.
TempfolderDefer ==
    /\ wrapped.pc = "func"
    /\ \E file \in tempfolder.files \ wrapped.deferred :
         wrapped' = [wrapped EXCEPT !.deferred = @ \cup {file}]
    /\ UNCHANGED <<tempfolder, notTempfolderVars>>

\* func returns: the deferred files are removed, then the wrapper removes
\* the folder and returns the result.
TempfolderReturn ==
    /\ wrapped.pc = "func"
    /\ LET r == Rmdir(RemoveDeferred(tempfolder, wrapped.deferred)) IN
       /\ tempfolder' = r.folder
       /\ wrapped' = [wrapped EXCEPT
                        !.pc = IF r.raised = NoException
                               THEN "returned" ELSE "raised",
                        !.raised = r.raised]
    /\ UNCHANGED notTempfolderVars

\* func raises: the deferred files are removed and the exception leaves
\* the wrapper.
TempfolderRaise ==
    /\ wrapped.pc = "func"
    /\ LET r == AfterRaise(RemoveDeferred(tempfolder, wrapped.deferred)) IN
       /\ tempfolder' = r.folder
       /\ wrapped' = [wrapped EXCEPT !.pc = "raised", !.raised = r.raised]
    /\ UNCHANGED notTempfolderVars

TempfolderNext ==
    \/ TempfolderCall
    \/ TempfolderExport
    \/ TempfolderDefer
    \/ TempfolderReturn
    \/ TempfolderRaise

TempfolderSpecInit ==
    /\ tempfolder = NoTempfolder
    /\ wrapped = NotWrapped
    /\ CacheIdle
    /\ TimerIdle
    /\ RenameIdle
    /\ ReportIdle
    /\ MergeIdle
    /\ RepathIdle
    /\ TreeIdle
    /\ PlayblastIdle
    /\ OutlinerIdle

TempfolderSpec == TempfolderSpecInit /\ [][TempfolderNext]_vars

(***************************************************************************)
(* An outliner model whose stage is set, whose views create indices and    *)
(* whose stage sends ObjectsChanged notices.                               *)
(***************************************************************************)
OutlinerSetStage ==
    /\ \E value \in Stages : outliner' = SetStage(outliner, value)
    /\ UNCHANGED notOutlinerVars

\* A view asks for the index of a prim of the stage.
OutlinerIndex ==
    /\ IsValidStage(outliner.stage)
    /\ \E path \in OutlinerPaths : outliner' = CreateIndex(outliner, path)
    /\ UNCHANGED notOutlinerVars

\* The stage sends a notice to the listener the model holds.
OutlinerNotice ==
    /\ outliner.listener # NoListener
    /\ outliner.handled < MaxHandled
    /\ \E resynced_paths \in ResyncedPaths :
         outliner' = OutlinerOnObjectsChanged(outliner, resynced_paths)
    /\ UNCHANGED notOutlinerVars

OutlinerNext ==
    \/ OutlinerSetStage
    \/ OutlinerIndex
    \/ OutlinerNotice

OutlinerSpecInit ==
    /\ \E stage0 \in Stages : outliner = SetStage(NewOutliner, stage0)
    /\ CacheIdle
    /\ TimerIdle
    /\ RenameIdle
    /\ ReportIdle
    /\ MergeIdle
    /\ RepathIdle
    /\ TreeIdle
    /\ PlayblastIdle
    /\ TempfolderIdle

OutlinerSpec == OutlinerSpecInit /\ [][OutlinerNext]_vars

(***************************************************************************)
(* The claims about the cache and the model.                               *)
(***************************************************************************)
\* C1: after resync_subtrees(paths) for a change that removed the prim at a
\* resynced path (or made it fail the predicate), the cache holds no entry
\* for that path nor for any descendant path of it.
C1_ResyncInvalidatesSubtree ==
    raised = NotRaised =>
      \A p \in resynced :
        (~OnStage(stage, p) \/ ~stage.pass[p]) =>
          \A q \in DOMAIN path_to_proxy : ~HasPrefix(q, p)

\* C2: after every edit and its resync_subtrees call, every cached proxy
\* whose prim is valid lists the stage's filtered children of that prim, in
\* the stage's order.
C2_ChildrenSynchronized ==
    \A p \in DOMAIN path_to_proxy :
      IsValid(path_to_proxy[p].prim) =>
        path_to_proxy[p].children = FilteredChildren(stage, p)

\* C3: after on_objects_changed, no persistent index refers to a prim that
\* is no longer on the stage, and the row of every persistent index is the
\* prim's position among its parent's children.
C3_PersistentIndicesFollowStage ==
    \A index \in persistent :
      /\ IsValid(index.prim)
      /\ index.prim.path # RootPath =>
           LET siblings ==
                 FilteredChildren(stage, GetParentPath(index.prim.path))
           IN /\ index.prim.path \in Range(siblings)
              /\ index.row = IndexOf(siblings, index.prim.path) - 1

\* C8: every layoutAboutToBeChanged of on_objects_changed is followed by
\* exactly one layoutChanged before the handler ends, also when the handler
\* raises, and layoutChanged never comes without a layoutAboutToBeChanged
\* before it that is still open.
LayoutSignalsPaired(emitted) ==
    /\ \A i \in 1..Len(emitted) :
         emitted[i] = (IF i % 2 = 1 THEN "layoutAboutToBeChanged"
                       ELSE "layoutChanged")
    /\ Len(emitted) % 2 = 0

C8_LayoutChangePropagated == LayoutSignalsPaired(signals)

\* C8's case: the handler raised in the persistent-index update, within the
\* layout change.
C8_RaisedWithinLayoutChange ==
    /\ raised = "get_row"
    /\ signals # <<>>

(***************************************************************************)
(* The claims about the debounced refresh.                                 *)
(***************************************************************************)
\* C4: after on_layers_changed calls on a model that come less than 50 ms
\* after one another, the model's refresh runs exactly once (it does run,
\* and not twice), and not before 50 ms have passed since the last call.
C4_RefreshOnceAfterLastCall ==
    /\ [](\A m \in Models : observed[m].runs <= 1 /\ ~observed[m].early)
    /\ \A m \in Models :
         (observed[m].called /\ observed[m].runs = 0)
            ~> (observed[m].runs = 1)

\* C5: no timer runs besides the last one scheduled in its channel, a
\* function that runs is that of its channel's last job, and a schedule
\* call leaves the jobs of the other channels as they were (running, with
\* the same time left).
C5_OnePendingJobPerChannel ==
    /\ orphans = {}
    /\ lastFired # NoTimer => lastFired.current
    /\ lastCall # NoCall =>
         \A c \in DOMAIN lastCall.before \ {lastCall.channel} :
           c \in DOMAIN jobs /\ jobs[c] = lastCall.before[c]

\* C5's case: schedule called in a channel with a pending job while another
\* channel has a pending job.
C5_RescheduledWhilePending ==
    /\ lastCall # NoCall
    /\ lastCall.channel \in DOMAIN lastCall.before
    /\ lastCall.before[lastCall.channel].active
    /\ \E c \in DOMAIN jobs \ {lastCall.channel} : jobs[c].active

(***************************************************************************)
(* The claims about renaming.                                              *)
(***************************************************************************)
\* C6: setData with EditRole on column 0 and an empty value returns False
\* and leaves every layer of the stage, and so the prim's name, unchanged.
C6_EmptyRenameRejected ==
    ( /\ setDataCall # NoSetData
      /\ setDataCall.role = "EditRole"
      /\ setDataCall.index.column = 0
      /\ setDataCall.value = "" ) =>
        /\ setDataCall.result = FALSE
        /\ layers = setDataCall.before
        /\ setDataCall.index.path \in ComposedPrims(layers)

\* C6's case: an empty name was committed for a prim with a prim spec in
\* both layers.
C6_EmptyNameCommitted ==
    /\ setDataCall # NoSetData
    /\ setDataCall.role = "EditRole"
    /\ setDataCall.index.column = 0
    /\ setDataCall.value = ""
    /\ \A l \in Layers : setDataCall.index.path \in setDataCall.before[l]

(***************************************************************************)
(* The claims about report_error.                                          *)
(***************************************************************************)
\* C7: when the wrapped function raises, the error is logged and the same
\* error is raised to the caller; when it returns, its value is returned.
C7_ErrorLoggedAndReraised ==
    reported # NotReported =>
      /\ reported.outcome = reported.fn
      /\ log = IF reported.fn.kind = "raise"
               THEN Append(reported.before, reported.fn.type)
               ELSE reported.before

\* C7, amended: when the wrapped function raises an Exception, the error is
\* logged and a new RuntimeError with that error as its cause is raised to
\* the caller; an error that is no Exception (KeyboardInterrupt, SystemExit)
\* reaches the caller as it is, unlogged; when the function returns, its
\* value is returned and nothing is logged.  No error is swallowed.
C7_ErrorLoggedAndChained ==
    reported # NotReported =>
      IF reported.fn.kind = "raise" /\ reported.fn.type \in Exceptions
      THEN /\ reported.outcome = Raised("RuntimeError", reported.fn.type)
           /\ log = Append(reported.before, reported.fn.type)
      ELSE /\ reported.outcome = reported.fn
           /\ log = reported.before

\* C7's case: the wrapped function raised a KeyError.
C7_WrappedFunctionRaised ==
    /\ reported # NotReported
    /\ reported.fn = Raised("KeyError", "None")
    /\ reported.outcome.kind = "raise"

(***************************************************************************)
(* The claims about copy_spec_merge.                                       *)
(***************************************************************************)
\* The specs the copy has merged: those at a path of both layers.
MergedPaths ==
    IF merged.copied THEN DOMAIN merged.before \cap DOMAIN src_layer ELSE {}

\* C9: a field that the destination spec authors and the source spec does
\* not author has its original value after copy_spec_merge.
C9_DestinationOnlyFieldKept ==
    merged.copied =>
      \A path \in MergedPaths :
        \A f \in ValueFields :
          ( /\ merged.before[path][f] # Unauthored
            /\ src_layer[path][f] = Unauthored ) =>
              dest_layer[path][f] = merged.before[path][f]

\* C10: of the fields that both the source and the existing destination
\* spec author, copy_spec_merge copies specifier only when the source's is
\* Def, typeName only when the destination's is empty, and every other
\* field always.
C10_FieldsOfExistingSpecMerged ==
    merged.copied =>
      \A path \in MergedPaths :
        LET s == src_layer[path]
            d == merged.before[path]
            r == dest_layer[path]
        IN /\ r.specifier = IF s.specifier = "SpecifierDef"
                            THEN "SpecifierDef" ELSE d.specifier
           /\ (s.typeName # Unauthored /\ d.typeName # Unauthored) =>
                r.typeName = IF d.typeName = "" THEN s.typeName
                             ELSE d.typeName
           /\ (s.kind # Unauthored /\ d.kind # Unauthored) =>
                r.kind = s.kind

\* C10's case: an Over with another type name and another kind was copied
\* onto a Def that has a type name and a kind.
C10_OverCopiedOntoDef ==
    /\ merged.copied
    /\ MergePath \in DOMAIN merged.before
    /\ src_layer[MergePath].specifier = "SpecifierOver"
    /\ merged.before[MergePath].specifier = "SpecifierDef"
    /\ src_layer[MergePath].typeName = "Scope"
    /\ merged.before[MergePath].typeName = "Xform"
    /\ src_layer[MergePath].kind = "group"
    /\ merged.before[MergePath].kind = "component"

\* C11: when a prim spec is moved to a layer that already holds a prim spec
\* at the same path, the target layer afterwards holds at that path and
\* below it the moved spec's opinions only.
C11_MoveReplacesTargetSpec ==
    (merged.moved /\ MergePath \in DOMAIN merged.before) =>
      /\ DOMAIN dest_layer = DOMAIN merged.source
      /\ \A path \in DOMAIN merged.source :
           dest_layer[path] = merged.source[path]

(***************************************************************************)
(* The claims about repath_properties.                                     *)
(***************************************************************************)
\* C12: after repath_properties(layer, old_path, new_path) no entry has
\* old_path as a path prefix, an entry that had it is new_path followed by
\* its remainder, every other entry is unchanged, and the result is True
\* exactly when an entry was changed.
C12_EveryEntryRepathed ==
    repathed.called =>
      /\ \A spec \in PropertySpecs :
           /\ Len(targets[spec]) = Len(repathed.before[spec])
           /\ \A i \in 1..Len(targets[spec]) :
                LET entry == repathed.before[spec][i] IN
                /\ ~PathHasPrefix(targets[spec][i], repathed.old_path)
                /\ targets[spec][i] =
                     IF PathHasPrefix(entry, repathed.old_path)
                     THEN repathed.new_path
                            \o SubSeq(entry, Len(repathed.old_path) + 1,
                                      Len(entry))
                     ELSE entry
      /\ repathed.result = (targets # repathed.before)

(***************************************************************************)
(* The claims about ItemTree.                                              *)
(***************************************************************************)
\* The item is one of the items S or below one of them.
RECURSIVE IsBelow(_, _, _)
IsBelow(t, item, S) ==
    \/ item \in S
    \/ /\ item \in DOMAIN t.child_to_parent
       /\ IsBelow(t, t.child_to_parent[item], S)

\* The list without the items of S.
WithoutItems(list, S) == SelectSeq(list, LAMBDA item : item \notin S)

\* C13: remove_items(S, childAction='delete') for items S of the tree does
\* not raise, removes exactly the items of S and their descendants and
\* never the root, returns each removed item once, and leaves every other
\* item with its parent and its order among its siblings.
C13_RemovesSelectionAndDescendants ==
    treeCall.removed =>
      LET before == treeCall.before
          gone == { item \in DOMAIN before.child_to_parent :
                      IsBelow(before, item, treeCall.selection \ {Root}) }
      IN /\ treeCall.raised = NoException
         /\ DOMAIN tree.parent_to_children
              = DOMAIN before.parent_to_children \ gone
         /\ DOMAIN tree.child_to_parent
              = DOMAIN before.child_to_parent \ gone
         /\ Range(treeCall.result) = gone
         /\ Len(treeCall.result) = Cardinality(gone)
         /\ \A item \in DOMAIN tree.child_to_parent :
              tree.child_to_parent[item] = before.child_to_parent[item]
         /\ \A p \in DOMAIN tree.parent_to_children :
              tree.parent_to_children[p]
                = WithoutItems(before.parent_to_children[p], gone)

\* C14: a call of add_items with an incoming key that is already in the
\* tree, with two incoming items of one key or with a parent that is not
\* in the tree raises, and a call that raises leaves the tree as it was; a
\* call that succeeds appends the items that were not in the tree to the
\* children of the parent, in the order given, and returns them.
C14_AddItemsAllOrNothing ==
    treeCall.added =>
      LET before == treeCall.before
          items == treeCall.items
          parent == treeCall.parent
          fresh == { i \in 1..Len(items) : ~Contains(before, items[i]) }
          new == SelectSeq(items, LAMBDA item : ~Contains(before, item))
      IN /\ ( /\ items # <<>>
              /\ \/ ~Contains(before, parent)
                 \/ \E i \in fresh :
                      Key(items[i]) \in DOMAIN before.key_to_item
                 \/ \E i, j \in fresh :
                      i # j /\ Key(items[i]) = Key(items[j]) )
              => treeCall.raised # NoException
         /\ treeCall.raised # NoException => tree = before
         /\ treeCall.raised = NoException /\ items = <<>> =>
              treeCall.result = <<>> /\ tree = before
         /\ treeCall.raised = NoException /\ items # <<>> =>
              /\ treeCall.result = new
              /\ tree.parent_to_children[parent]
                   = before.parent_to_children[parent] \o new
              /\ DOMAIN tree.parent_to_children
                   = DOMAIN before.parent_to_children \cup Range(new)
              /\ \A p \in DOMAIN before.parent_to_children \ {parent} :
                   tree.parent_to_children[p] = before.parent_to_children[p]
              /\ \A item \in Range(new) :
                   /\ tree.parent_to_children[item] = <<>>
                   /\ tree.child_to_parent[item] = parent
                   /\ tree.key_to_item[Key(item)] = item
              /\ \A item \in DOMAIN before.child_to_parent :
                   tree.child_to_parent[item] = before.child_to_parent[item]

\* A call of add_items on a tree with items raised for a key.
C14_AddItemsRaised ==
    /\ treeCall.added
    /\ treeCall.raised = "ValueError"
    /\ treeCall.before # NewItemTree
    /\ tree = treeCall.before

\* A call of add_items added two items below an item of the tree.
C14_AddItemsAppended ==
    /\ treeCall.added
    /\ treeCall.raised = NoException
    /\ Len(treeCall.result) = 2
    /\ treeCall.parent # Root

C16_TempfolderCleanedUp ==
    /\ wrapped.pc = "func" => tempfolder.exists
    /\ wrapped.pc \in {"returned", "raised"} => ~tempfolder.exists

\* C17: in every state reached by get_child and resync_subtrees, every
\* cached path but the root has its parent cached and is listed among the
\* parent's cached children, so that get_parent and get_row of its proxy
\* do not raise.
C17_CachedPathsHaveCachedParent ==
    \A path \in DOMAIN path_to_proxy :
      /\ ~GetRowRaises(path_to_proxy, path)
      /\ path # RootPath => GetParentPath(path) \in DOMAIN path_to_proxy

\* C18: get_child(parent, i) of a cached parent with a valid prim and a row
\* i below its child count does not raise and returns the proxy of the
\* prim that is now on the stage at the i-th cached child path, a valid
\* prim, and a second call returns the same proxy and leaves the cache as
\* the first one left it; this holds as well after the prim at that path
\* was removed and defined again with a resync after each change.
C18_GetChildReturnsCurrentPrim ==
    \A path \in DOMAIN path_to_proxy :
      IsValid(path_to_proxy[path].prim) =>
        \A index \in 0..(Len(path_to_proxy[path].children) - 1) :
          LET child_path == path_to_proxy[path].children[index + 1]
              first == GetChild(stage, path_to_proxy, path, index)
              second == GetChild(stage, first.cache, path, index)
          IN /\ ~first.raised
             /\ IsValid(first.child)
             /\ first.child = GetPrimAtPath(stage, child_path)
             /\ first.cache[child_path].prim = first.child
             /\ second = first

(***************************************************************************)
(* The claims about the outliner's model.                                  *)
(***************************************************************************)
\* C19: while the stage of the outliner's HierarchyModel is valid, the
\* model holds its listener, after any number of ObjectsChanged notices.
C19_ListenerKeptWhileStageValid ==
    IsValidStage(outliner.stage) => outliner.listener # NoListener

====
